---- MODULE Spec2Model ----
(***************************************************************************)
(* Model of format_document.py: the FormatDocument loader/exporter and the *)
(* command-line driver main().  Text is a sequence of one-character        *)
(* strings, so str.upper, str.title, str.split, str.isdigit, substring     *)
(* search and int()/str() conversions are computed, not assumed.           *)
(* The character "sup2" stands for U+00B2 (SUPERSCRIPT TWO): str.isdigit   *)
(* accepts it, int() rejects it.                                           *)
(***************************************************************************)
EXTENDS Integers, Sequences, FiniteSets, TLC

\* ---------------------------------------------------------------- bounds
MaxRows == 3

\* ------------------------------------------------------ program constants
CodeDigits == 9
PrefixLen == 3

brand_keywords ==
  <<
    <<"L", "I", "N", "S", "A", "N">>,
    <<"B", "R", "E", "V", "I", "L", "L", "E">>,
    <<"P", "R", "I", "M", "A">>,
    <<"T", "E", "S", "C", "O">>,
    <<"C", "O", "L", "E", "M", "A", "N">>,
    <<"S", "A", "I", "N", "S", "B", "U", "R", "Y", "'", "S">>,
    <<"P", "Y", "R", "E", "X">>,
    <<"P", "H", "I", "L", "I", "P", "S">>,
    <<"E", "L", "P", "I", "N", "E">>,
    <<"O", "Z", "A", "R", "K">>,
    <<"S", "N", "A", "P", "W", "A", "R", "E">>,
    <<"R", "U", "B", "B", "E", "R", "M", "A", "I", "D">>,
    <<"C", "O", "R", "N", "I", "N", "G", "W", "A", "R", "E">>,
    <<"K", "I", "R", "K", "L", "A", "N", "D">>,
    <<"H", "A", "I", "E", "R">>,
    <<"I", "N", "D", "E", "S", "I", "T">>,
    <<"M", "I", "K", "A", "S", "A">>,
    <<"L", "U", "M", "I", "N", "A", "R", "C">>
  >>
colors ==
  <<
    <<"R", "E", "D">>,
    <<"B", "L", "U", "E">>,
    <<"G", "R", "E", "E", "N">>,
    <<"B", "L", "A", "C", "K">>,
    <<"W", "H", "I", "T", "E">>,
    <<"G", "R", "E", "Y">>,
    <<"P", "I", "N", "K">>,
    <<"S", "I", "L", "V", "E", "R">>,
    <<"N", "A", "V", "Y">>
  >>
header ==
  <<"id", "name", "brand", "color", "code", "quantity", "price", "branch", "branch_id", "description">>
UC == <<"A", "B", "C", "D", "E", "F", "G", "H", "I", "J", "K", "L", "M", "N", "O", "P", "Q", "R", "S", "T", "U", "V", "W", "X", "Y", "Z">>
LC == <<"a", "b", "c", "d", "e", "f", "g", "h", "i", "j", "k", "l", "m", "n", "o", "p", "q", "r", "s", "t", "u", "v", "w", "x", "y", "z">>
DecimalDigits == <<"0", "1", "2", "3", "4", "5", "6", "7", "8", "9">>
MARKER == <<"I", "T", "E", "M", " ", "D", "E", "S", "C", "R", "I", "P", "T", "I", "O", "N">>
DEFAULT_PRICE == <<"2", "0", ".", "0", "0">>
DEFAULT_BRANCH == <<"o", "j", "o", "d", "u">>
DEFAULT_BRANCH_ID == <<"3">>
DEFAULT_QUANTITY == <<"1">>
DEFAULT_COLOR == <<"s", "i", "l", "v", "e", "r">>
UNKNOWN == <<"U", "n", "k", "n", "o", "w", "n">>
NamePyrex == <<"P", "Y", "R", "E", "X", " ", "B", "l", "u", "e", " ", "S", "t", "o", "r", "a", "g", "e", " ", "B", "o", "x">>
NameMystery == <<"M", "y", "s", "t", "e", "r", "y", " ", "I", "t", "e", "m">>
NamePrimaLinsan == <<"p", "r", "i", "m", "a", " ", "L", "i", "n", "s", "a", "n", " ", "n", "a", "v", "y">>
NameBlank == <<" ", " ">>
SerialNo == <<"S", "/", "N">>
MarkerTitle == <<"1", ".", " ", "I", "T", "E", "M", " ", "D", "E", "S", "C", "R", "I", "P", "T", "I", "O", "N">>
BranchIkeja == <<"i", "k", "e", "j", "a">>
BranchIdFive == <<"5">>
QtyTwelve == <<"0", "1", "2">>
QtyTitle == <<"Q", "T", "Y">>
FALSE_TEXT == <<"F", "a", "l", "s", "e">>
QtySuperscript == <<"2", "sup2">>
TRUE_TEXT == <<"T", "r", "u", "e">>
NAN_TEXT == <<"n", "a", "n">>

\* ------------------------------------------------------------ characters
Range(s) == {s[i] : i \in 1..Len(s)}

IndexOf(s, c) == CHOOSE i \in 1..Len(s) : s[i] = c

IsUpper(c) == c \in Range(UC)

IsLower(c) == c \in Range(LC)

\* [a-zA-Z]
IsAlpha(c) == IsUpper(c) \/ IsLower(c)

\* str.isspace for one character
IsSpace(c) == c = " "

\* str.isdigit for one character: decimal digits and digit-like characters
IsDigitChar(c) == c \in Range(DecimalDigits) \/ c = "sup2"

\* the characters that occur in the modelled text
Chars ==
  Range(UC) \cup Range(LC) \cup Range(DecimalDigits)
    \cup {" ", "'", ".", "-", "/", "sup2"}

UpperMap == [c \in Chars |-> IF IsLower(c) THEN UC[IndexOf(LC, c)] ELSE c]

LowerMap == [c \in Chars |-> IF IsUpper(c) THEN LC[IndexOf(UC, c)] ELSE c]

UpperChar(c) == UpperMap[c]

LowerChar(c) == LowerMap[c]

\* ------------------------------------------------------------------ text
\* str.upper
Upper(s) == [i \in 1..Len(s) |-> UpperChar(s[i])]

\* str.lower
Lower(s) == [i \in 1..Len(s) |-> LowerChar(s[i])]

\* str.title: a cased character is upper-cased when the previous character
\* is uncased and lower-cased otherwise
Title(s) ==
  [i \in 1..Len(s) |->
     IF i > 1 /\ IsAlpha(s[i - 1]) THEN LowerChar(s[i]) ELSE UpperChar(s[i])]

\* `sub in s`
Contains(s, sub) ==
  \E k \in 0..(Len(s) - Len(sub)) : \A j \in 1..Len(sub) : s[k + j] = sub[j]

\* str.strip
RECURSIVE LStrip(_)
LStrip(s) == IF s # <<>> /\ IsSpace(Head(s)) THEN LStrip(Tail(s)) ELSE s

RECURSIVE RStrip(_)
RStrip(s) ==
  IF s # <<>> /\ IsSpace(s[Len(s)]) THEN RStrip(SubSeq(s, 1, Len(s) - 1)) ELSE s

Strip(s) == RStrip(LStrip(s))

\* str.split() with no separator: maximal runs of non-whitespace
RECURSIVE SplitFrom(_, _, _)
SplitFrom(s, cur, acc) ==
  IF s = <<>> THEN (IF cur = <<>> THEN acc ELSE Append(acc, cur))
  ELSE IF IsSpace(Head(s))
       THEN SplitFrom(Tail(s), <<>>, IF cur = <<>> THEN acc ELSE Append(acc, cur))
       ELSE SplitFrom(Tail(s), Append(cur, Head(s)), acc)

Split(s) == SplitFrom(s, <<>>, <<>>)

\* str.isdigit: non-empty and every character is a digit character
IsDigit(s) == s # <<>> /\ \A i \in 1..Len(s) : IsDigitChar(s[i])

\* re.sub(r'[^a-zA-Z]', '', s)
OnlyAlpha(s) == SelectSeq(s, IsAlpha)

\* s[:n]
Prefix(s, n) == SubSeq(s, 1, IF Len(s) < n THEN Len(s) ELSE n)

\* str(n) for an integer n
RECURSIVE NatToStr(_)
NatToStr(n) ==
  IF n < 10 THEN <<DecimalDigits[n + 1]>>
  ELSE Append(NatToStr(n \div 10), DecimalDigits[(n % 10) + 1])

IntToStr(n) == IF n < 0 THEN <<"-">> \o NatToStr(0 - n) ELSE NatToStr(n)

\* int(s) for a string of decimal digits
RECURSIVE ParseNat(_, _)
ParseNat(s, acc) ==
  IF s = <<>> THEN acc
  ELSE ParseNat(Tail(s), acc * 10 + (IndexOf(DecimalDigits, Head(s)) - 1))

\* ----------------------------------------------------------------- cells
\* A spreadsheet cell as pandas hands it to the row loop.  kind is the
\* Python type: "int", "bool" (a subclass of int), "float" (num holds the
\* value in tenths), "nan" (the missing value, a float) or "str".
\* Infinity, the one other float whose int() raises, is not a value that
\* spreadsheet applications store and is left out.
IntCell(n) == [kind |-> "int", num |-> n, text |-> <<>>]

BoolCell(b) == [kind |-> "bool", num |-> IF b THEN 1 ELSE 0, text |-> <<>>]

FloatCell(tenths) == [kind |-> "float", num |-> tenths, text |-> <<>>]

NaN == [kind |-> "nan", num |-> 0, text |-> <<>>]

StrCell(s) == [kind |-> "str", num |-> 0, text |-> s]

\* isinstance(x, (int, float))
IsIntOrFloat(x) == x.kind \in {"int", "bool", "float", "nan"}

\* isinstance(x, str)
IsStr(x) == x.kind = "str"

\* pd.isna(x)
IsNa(x) == x.kind = "nan"

Abs(n) == IF n < 0 THEN 0 - n ELSE n

\* truncation toward zero of a value given in tenths
Trunc(tenths) ==
  IF tenths < 0 THEN 0 - (Abs(tenths) \div 10) ELSE tenths \div 10

\* str(x)
Str(x) ==
  CASE x.kind = "int" -> IntToStr(x.num)
    [] x.kind = "bool" -> IF x.num = 1 THEN TRUE_TEXT ELSE FALSE_TEXT
    [] x.kind = "float" ->
         (IF x.num < 0 THEN <<"-">> ELSE <<>>)
           \o NatToStr(Abs(x.num) \div 10)
           \o <<".">> \o NatToStr(Abs(x.num) % 10)
    [] x.kind = "nan" -> NAN_TEXT
    [] x.kind = "str" -> x.text

\* int(x): ok is FALSE when the conversion raises (ValueError for NaN and
\* for text that is not a decimal literal)
ToInt(x) ==
  CASE x.kind \in {"int", "bool"} -> [ok |-> TRUE, val |-> x.num]
    [] x.kind = "float" -> [ok |-> TRUE, val |-> Trunc(x.num)]
    [] x.kind = "nan" -> [ok |-> FALSE, val |-> 0]
    [] x.kind = "str" ->
         IF x.text # <<>> /\ \A i \in 1..Len(x.text) : x.text[i] \in Range(DecimalDigits)
         THEN [ok |-> TRUE, val |-> ParseNat(x.text, 0)]
         ELSE [ok |-> FALSE, val |-> 0]

\* ------------------------------------------------- FormatDocument helpers
\* BrandFrom scanning the keyword list from its end
RECURSIVE BrandFrom_LastKeyword(_, _, _)
BrandFrom_LastKeyword(name, upper, k) ==
  IF k > Len(brand_keywords)
  THEN (LET words == Split(name)
        IN IF words # <<>> THEN Title(words[1]) ELSE UNKNOWN)
  ELSE IF Contains(upper, brand_keywords[Len(brand_keywords) + 1 - k])
       THEN Title(brand_keywords[Len(brand_keywords) + 1 - k])
       ELSE BrandFrom_LastKeyword(name, upper, k + 1)

\* extract_brand: the first keyword, in list order from position k on, that
\* occurs in name.upper(); else the first word; else "Unknown"
RECURSIVE BrandFrom(_, _, _)
BrandFrom(name, upper, k) ==
  IF k > Len(brand_keywords)
  THEN (LET words == Split(name)
        IN IF words # <<>> THEN Title(words[1]) ELSE UNKNOWN)
  ELSE IF Contains(upper, brand_keywords[k])
       THEN Title(brand_keywords[k])
       ELSE BrandFrom(name, upper, k + 1)

extract_brand(name) == LET upper == Upper(name) IN BrandFrom(name, upper, 1)

\* extract_color: the first colour, in list order, that occurs in name.upper()
RECURSIVE ColorFrom(_, _)
ColorFrom(upper, k) ==
  IF k > Len(colors) THEN DEFAULT_COLOR
  ELSE IF Contains(upper, colors[k])
       THEN Lower(colors[k])
       ELSE ColorFrom(upper, k + 1)

extract_color(name) == LET upper == Upper(name) IN ColorFrom(upper, 1)

\* The random module is a generator seeded once, at import, from the
\* operating system: the seed is the nondeterministic input and each
\* random.choices(string.digits, k=9) is a function of the generator's
\* state, which it advances.
RandomSeeds == {3, 7}

RandomDigits(state) ==
  [i \in 1..CodeDigits |-> DecimalDigits[((i * state) % 10) + 1]]

NextRandom(state) == (state * 3 + 2) % 10

\* generate_code, given the random digits drawn
generate_code(name, random_num) ==
  Upper(Prefix(OnlyAlpha(name), PrefixLen)) \o random_num

\* RowItem with the quantity taken as the cell's text, not cast to an integer
RowItem_QuantityText(row, random_num) ==
  LET item_name == IF ~IsNa(row[2]) THEN Str(row[2]) ELSE <<>>
      quantity == IF Len(row) > 2 /\ ~IsNa(row[3]) /\ IsDigit(Str(row[3]))
                  THEN Str(row[3])
                  ELSE DEFAULT_QUANTITY
  IN [id |-> IntToStr(ToInt(row[1]).val),
      name |-> Lower(item_name),
      brand |-> extract_brand(item_name),
      color |-> extract_color(item_name),
      code |-> generate_code(item_name, random_num),
      quantity |-> quantity,
      price |-> DEFAULT_PRICE,
      branch |-> DEFAULT_BRANCH,
      branch_id |-> DEFAULT_BRANCH_ID,
      description |-> item_name]

\* lines 57-94: the record appended for a row that passes every check
RowItem(row, random_num) ==
  LET item_name == IF ~IsNa(row[2]) THEN Str(row[2]) ELSE <<>>
      quantity == IF Len(row) > 2 /\ ~IsNa(row[3]) /\ IsDigit(Str(row[3]))
                  THEN IntToStr(ToInt(row[3]).val)
                  ELSE DEFAULT_QUANTITY
  IN [id |-> IntToStr(ToInt(row[1]).val),
      name |-> Lower(item_name),
      brand |-> extract_brand(item_name),
      color |-> extract_color(item_name),
      code |-> generate_code(item_name, random_num),
      quantity |-> quantity,
      price |-> DEFAULT_PRICE,
      branch |-> DEFAULT_BRANCH,
      branch_id |-> DEFAULT_BRANCH_ID,
      description |-> item_name]

\* whether `continue` on line 55 is taken
SkipsOnId(row) == ~IsIntOrFloat(row[1]) \/ IsNa(row[1])

\* whether `continue` on line 63 is taken
SkipsOnName(row) ==
  Strip(IF ~IsNa(row[2]) THEN Str(row[2]) ELSE <<>>) = <<>>

\* ProcessRow with a row handler that drops the row without logging
ProcessRow_ErrorsSilent(row) ==
  IF SkipsOnId(row) THEN "skip"
  ELSE IF ~ToInt(row[1]).ok THEN "skip"
  ELSE IF SkipsOnName(row) THEN "skip"
  ELSE IF Len(row) > 2 /\ ~IsNa(row[3]) /\ IsDigit(Str(row[3])) /\ ~ToInt(row[3]).ok
       THEN "skip"
  ELSE "item"

\* lines 52-98, the outcome of the loop body for one row: "skip" for a
\* `continue`, "error" when an exception reaches the row handler, "item"
\* when the record is appended
ProcessRow(row) ==
  IF SkipsOnId(row) THEN "skip"
  ELSE IF ~ToInt(row[1]).ok THEN "error"
  ELSE IF SkipsOnName(row) THEN "skip"
  ELSE IF Len(row) > 2 /\ ~IsNa(row[3]) /\ IsDigit(Str(row[3])) /\ ~ToInt(row[3]).ok
       THEN "error"
  ELSE "item"

\* ------------------------------------------------------------ read_excel
\* pandas gives a column of numbers that are not all integers (an empty
\* cell is NaN, a float) the dtype float64, so its integers arrive as
\* floats; a column that holds text or booleans keeps each cell's type.
IsNumericColumn(rows, c) ==
  \A i \in 1..Len(rows) : rows[i][c].kind \in {"int", "float", "nan"}

IsIntColumn(rows, c) == \A i \in 1..Len(rows) : rows[i][c].kind = "int"

AsFloat(x) == IF x.kind = "int" THEN FloatCell(x.num * 10) ELSE x

\* iterrows yields each row with one dtype for all its cells: when every
\* column is numeric the integers of the row arrive as floats too
read_excel(sheet) ==
  LET rows == sheet.rows
      cols == 1..sheet.ncols
      allNumeric == \A c \in cols : IsNumericColumn(rows, c)
      floats(c) == allNumeric \/ (IsNumericColumn(rows, c) /\ ~IsIntColumn(rows, c))
  IN [ncols |-> sheet.ncols,
      rows |-> [i \in 1..Len(rows) |->
                  [c \in cols |-> IF floats(c) THEN AsFloat(rows[i][c]) ELSE rows[i][c]]]]

\* FindStart with the data region starting at the marker row itself
RECURSIVE FindStart_MarkerIncluded(_, _)
FindStart_MarkerIncluded(rows, i) ==
  IF i > Len(rows) THEN 0
  ELSE IF IsStr(rows[i][2]) /\ Contains(rows[i][2].text, MARKER) THEN i - 1
  ELSE FindStart_MarkerIncluded(rows, i + 1)

\* lines 41-45: the index after the first marker row of the second column
RECURSIVE FindStart(_, _)
FindStart(rows, i) ==
  IF i > Len(rows) THEN 0
  ELSE IF IsStr(rows[i][2]) /\ Contains(rows[i][2].text, MARKER) THEN i
  ELSE FindStart(rows, i + 1)

\* CsvRows writing the items last to first
CsvRows_Reversed(its) ==
  <<header>> \o [r \in 1..Len(its) |-> [c \in 1..Len(header) |-> its[Len(its) + 1 - r][header[c]]]]

\* export_to_csv: the header row, then one row per item in header order
CsvRow(item) == [c \in 1..Len(header) |-> item[header[c]]]

CsvRows(its) == <<header>> \o [r \in 1..Len(its) |-> CsvRow(its[r])]

\* ---------------------------------------------------------------- inputs
\* Rows a sheet may hold: (first cell, second cell, third cell).
RowPool ==
  { <<IntCell(1), StrCell(NamePyrex), IntCell(5)>>,
    <<FloatCell(27), StrCell(NameMystery), FloatCell(50)>>,
    <<StrCell(SerialNo), StrCell(MarkerTitle), StrCell(QtyTitle)>>,
    <<IntCell(4), StrCell(NamePrimaLinsan), NaN>>,
    <<IntCell(3), NaN, IntCell(-3)>>,
    <<IntCell(6), StrCell(NameBlank), IntCell(5)>>,
    <<IntCell(5), StrCell(NameMystery), StrCell(QtySuperscript)>>,
    <<NaN, StrCell(NameMystery), IntCell(5)>>,
    <<BoolCell(TRUE), StrCell(NameMystery), StrCell(QtyTwelve)>> }

\* Rows of the sheets that have fewer than three columns.
NarrowPool ==
  { <<IntCell(2), StrCell(NameMystery)>>,
    <<FloatCell(27), StrCell(MarkerTitle)>>,
    <<NaN, NaN>> }

\* A sheet has the same number of columns in every row.
SheetsOf(ncols, pool, k) ==
  {[ncols |-> ncols, rows |-> [i \in 1..k |-> SubSeq(r[i], 1, ncols)]] :
     r \in [1..k -> pool]}

Sheets ==
  UNION ({SheetsOf(3, RowPool, k) : k \in 0..MaxRows}
           \cup {SheetsOf(n, NarrowPool, k) : n \in 1..2, k \in 0..MaxRows})

NoSheet == [ncols |-> 0, rows |-> <<>>]

\* sys.argv after parse_args: no_args is len(sys.argv) == 1; excel_path ""
\* is None (absent); the other fields carry argparse's defaults when the
\* option is not given.
DefaultOutput == "formatted_items.csv"

CommandLine(path, out, branch, branch_id, list) ==
  [no_args |-> FALSE, excel_path |-> path, output |-> out, branch |-> branch,
   branch_id |-> branch_id, list_sheets |-> list]

\* The command lines of print_usage's examples, and their variations with
\* the path left out, a path that is not a file, or one override only.
Args ==
  { [no_args |-> TRUE, excel_path |-> "", output |-> DefaultOutput,
     branch |-> DEFAULT_BRANCH, branch_id |-> DEFAULT_BRANCH_ID,
     list_sheets |-> FALSE],
    CommandLine("inventory.xlsx", DefaultOutput, DEFAULT_BRANCH, DEFAULT_BRANCH_ID, FALSE),
    CommandLine("inventory.xlsx", "my_inventory.csv", BranchIkeja, DEFAULT_BRANCH_ID, FALSE),
    CommandLine("inventory.xlsx", DefaultOutput, BranchIkeja, BranchIdFive, FALSE),
    CommandLine("inventory.xlsx", DefaultOutput, DEFAULT_BRANCH, BranchIdFive, FALSE),
    CommandLine("inventory.xlsx", DefaultOutput, DEFAULT_BRANCH, DEFAULT_BRANCH_ID, TRUE),
    CommandLine("inventory.xlsx", "my_inventory.csv", BranchIkeja, DEFAULT_BRANCH_ID, TRUE),
    CommandLine("missing.xlsx", DefaultOutput, DEFAULT_BRANCH, DEFAULT_BRANCH_ID, FALSE),
    CommandLine("missing.xlsx", DefaultOutput, DEFAULT_BRANCH, DEFAULT_BRANCH_ID, TRUE),
    CommandLine("", "my_inventory.csv", DEFAULT_BRANCH, DEFAULT_BRANCH_ID, FALSE),
    CommandLine("", DefaultOutput, BranchIkeja, BranchIdFive, FALSE),
    CommandLine("", DefaultOutput, DEFAULT_BRANCH, DEFAULT_BRANCH_ID, TRUE) }

\* os.path.isfile
IsFile(path) == path = "inventory.xlsx"

NoFile == [exists |-> FALSE, path |-> "", rows |-> <<>>]

\* ----------------------------------------------------------------- state
VARIABLES
  args,        \* the parsed command line
  pc,          \* position of main: "start", "rows", "export", "exit"
  df,          \* the sheet read by parse_excel
  start_row,   \* parse_excel's start_row
  idx,         \* how many rows of data_df the row loop has consumed
  items,       \* FormatDocument.items
  stdout,      \* what was printed, in order
  csv,         \* the output file
  calls,       \* list_sheets / FormatDocument / export_to_csv calls made
  rng,         \* the state of the random module's generator
  exit_code    \* the status passed to sys.exit, -1 while running

vars == <<args, pc, df, start_row, idx, items, stdout, csv, calls, rng, exit_code>>

Msg(m, n) == [msg |-> m, n |-> n]

\* df.iloc[start_row:].reset_index(drop=True)
data_df == SubSeq(df.rows, start_row + 1, Len(df.rows))

Init ==
  /\ args \in Args
  /\ pc = "start"
  /\ df = NoSheet
  /\ start_row = 0
  /\ idx = 0
  /\ items = <<>>
  /\ stdout = <<>>
  /\ csv = NoFile
  /\ calls = <<>>
  /\ rng \in RandomSeeds
  /\ exit_code = -1

Exit(code, printed) ==
  /\ pc' = "exit"
  /\ exit_code' = code
  /\ stdout' = stdout \o printed

\* lines 227-230
NoArgsUsage ==
  /\ pc = "start"
  /\ args.no_args
  /\ Exit(0, <<Msg("usage", 0)>>)
  /\ UNCHANGED <<args, df, start_row, idx, items, csv, calls, rng>>

\* MissingPath with --list-sheets exempt from the path check
MissingPath_ListingExempt ==
  /\ pc = "start"
  /\ ~args.no_args
  /\ args.excel_path = ""
  /\ IF args.list_sheets
     THEN /\ Exit(0, <<Msg("Error reading sheets", 0)>>)
          /\ calls' = Append(calls, "list_sheets")
     ELSE /\ Exit(1, <<Msg("help", 0), Msg("Error: Excel file path is required", 0)>>)
          /\ calls' = calls
  /\ UNCHANGED <<args, df, start_row, idx, items, csv, rng>>

\* lines 232-236
MissingPath ==
  /\ pc = "start"
  /\ ~args.no_args
  /\ args.excel_path = ""
  /\ Exit(1, <<Msg("help", 0), Msg("Error: Excel file path is required", 0)>>)
  /\ UNCHANGED <<args, df, start_row, idx, items, csv, calls, rng>>

\* lines 238-241
FileNotFound ==
  /\ pc = "start"
  /\ ~args.no_args
  /\ args.excel_path # ""
  /\ ~IsFile(args.excel_path)
  /\ Exit(1, <<Msg("Error: File not found", 0)>>)
  /\ UNCHANGED <<args, df, start_row, idx, items, csv, calls, rng>>

PastChecks ==
  /\ pc = "start"
  /\ ~args.no_args
  /\ args.excel_path # ""
  /\ IsFile(args.excel_path)

\* lines 243-246 with list_sheets succeeding: one line per sheet
ListSheetsOk ==
  /\ PastChecks
  /\ args.list_sheets
  /\ \E n \in 1..3 :
       Exit(0, <<Msg("Available sheets", 0)>> \o [i \in 1..n |-> Msg("sheet", i - 1)])
  /\ calls' = Append(calls, "list_sheets")
  /\ UNCHANGED <<args, df, start_row, idx, items, csv, rng>>

\* ListSheetsFail with the exception leaving list_sheets
ListSheetsFail_Propagates ==
  /\ PastChecks
  /\ args.list_sheets
  /\ Exit(1, <<Msg("Error reading sheets", 0)>>)
  /\ calls' = Append(calls, "list_sheets")
  /\ UNCHANGED <<args, df, start_row, idx, items, csv, rng>>

\* lines 243-246 with pd.ExcelFile raising inside list_sheets
ListSheetsFail ==
  /\ PastChecks
  /\ args.list_sheets
  /\ Exit(0, <<Msg("Error reading sheets", 0)>>)
  /\ calls' = Append(calls, "list_sheets")
  /\ UNCHANGED <<args, df, start_row, idx, items, csv, rng>>

\* lines 258, 24-48: the constructor reads the sheet and finds start_row
ReadExcel ==
  /\ PastChecks
  /\ ~args.list_sheets
  /\ \E sheet \in Sheets :
       /\ sheet.ncols >= 2
       /\ df' = read_excel(sheet)
       /\ start_row' = FindStart(df'.rows, 1)
  /\ pc' = "rows"
  /\ calls' = Append(calls, "FormatDocument")
  /\ UNCHANGED <<args, idx, items, stdout, csv, rng, exit_code>>

\* ReadExcelFail with the constructor not re-raising: the formatter is
\* left with no items and the driver goes on to export
ReadExcelFail_Swallowed ==
  /\ PastChecks
  /\ ~args.list_sheets
  /\ \/ df' = df
     \/ \E sheet \in Sheets : sheet.ncols < 2 /\ df' = read_excel(sheet)
  /\ stdout' = Append(stdout, Msg("Error reading Excel file", 0))
  /\ pc' = "export"
  /\ calls' = Append(calls, "FormatDocument")
  /\ UNCHANGED <<args, start_row, idx, items, csv, rng, exit_code>>

\* lines 38-42, 100-102, 271-273: read_excel raises, or the sheet has no
\* second column and df.iloc[:, 1] raises; the constructor re-raises
ReadExcelFail ==
  /\ PastChecks
  /\ ~args.list_sheets
  /\ \/ df' = df
     \/ \E sheet \in Sheets : sheet.ncols < 2 /\ df' = read_excel(sheet)
  /\ Exit(1, <<Msg("Error reading Excel file", 0), Msg("Error processing file", 0)>>)
  /\ calls' = Append(calls, "FormatDocument")
  /\ UNCHANGED <<args, start_row, idx, items, csv, rng>>

\* lines 51-98: one iteration of the row loop
ParseRow ==
  /\ pc = "rows"
  /\ idx < Len(data_df)
  /\ LET row == data_df[idx + 1]
         outcome == ProcessRow(row)
     IN \/ /\ outcome = "skip"
           /\ UNCHANGED <<items, rng, stdout>>
        \/ /\ outcome = "error"
           /\ stdout' = Append(stdout, Msg("Error processing row", idx + start_row))
           /\ UNCHANGED <<items, rng>>
        \/ /\ outcome = "item"
           /\ items' = Append(items, RowItem(row, RandomDigits(rng)))
           /\ rng' = NextRandom(rng)
           /\ UNCHANGED stdout
  /\ idx' = idx + 1
  /\ UNCHANGED <<args, pc, df, start_row, csv, calls, exit_code>>

\* BranchOverride applied only when both arguments differ from the defaults
BranchOverride_BothRequired ==
  /\ pc = "rows"
  /\ idx = Len(data_df)
  /\ items' = IF args.branch # DEFAULT_BRANCH /\ args.branch_id # DEFAULT_BRANCH_ID
              THEN [i \in 1..Len(items) |->
                      [items[i] EXCEPT !.branch = args.branch,
                                       !.branch_id = args.branch_id]]
              ELSE items
  /\ pc' = "export"
  /\ UNCHANGED <<args, df, start_row, idx, stdout, csv, calls, rng, exit_code>>

\* lines 260-264
BranchOverride ==
  /\ pc = "rows"
  /\ idx = Len(data_df)
  /\ items' = IF args.branch # DEFAULT_BRANCH \/ args.branch_id # DEFAULT_BRANCH_ID
              THEN [i \in 1..Len(items) |->
                      [items[i] EXCEPT !.branch = args.branch,
                                       !.branch_id = args.branch_id]]
              ELSE items
  /\ pc' = "export"
  /\ UNCHANGED <<args, df, start_row, idx, stdout, csv, calls, rng, exit_code>>

\* lines 266-269, 135-141
ExportOk ==
  /\ pc = "export"
  /\ csv' = [exists |-> TRUE, path |-> args.output, rows |-> CsvRows(items)]
  /\ calls' = Append(calls, "export_to_csv")
  /\ Exit(0, <<[msg |-> "Success! Formatted document saved to", n |-> 0, path |-> args.output],
               Msg("Processed items", Len(items))>>)
  /\ UNCHANGED <<args, df, start_row, idx, items, rng>>

\* lines 137-140, 271-273: open() raises and no file is written, or a write
\* raises and the file is left truncated
ExportFail ==
  /\ pc = "export"
  /\ \/ csv' = csv
     \/ csv' = [exists |-> TRUE, path |-> args.output,
                rows |-> SubSeq(CsvRows(items), 1, Len(items))]
  /\ calls' = Append(calls, "export_to_csv")
  /\ Exit(1, <<Msg("Error processing file", 0)>>)
  /\ UNCHANGED <<args, df, start_row, idx, items, rng>>

Next ==
  \/ NoArgsUsage
  \/ MissingPath
  \/ FileNotFound
  \/ ListSheetsOk
  \/ ListSheetsFail
  \/ ReadExcel
  \/ ReadExcelFail
  \/ ParseRow
  \/ BranchOverride
  \/ ExportOk
  \/ ExportFail

Spec == Init /\ [][Next]_vars

\* ------------------------------------------------------ shared vocabulary
\* parse_excel has read a sheet and found start_row
Loaded == df.ncols >= 2

\* the rows of df the row loop has gone through
Consumed == (start_row + 1)..(start_row + idx)

\* the name the loader derives from a row's second cell
NameText(row) == IF row[2].kind = "nan" THEN <<>> ELSE Str(row[2])

Printed(m) == \E i \in 1..Len(stdout) : stdout[i].msg = m

Called(f) == \E i \in 1..Len(calls) : calls[i] = f

Min(S) == CHOOSE m \in S : \A n \in S : m <= n

\* ---------------------------------------------------------------- C1
MarkerRows ==
  {i \in 1..Len(df.rows) :
     /\ df.rows[i][2].kind = "str"
     /\ \E o \in 0..(Len(df.rows[i][2].text) - Len(MARKER)) :
          \A j \in 1..Len(MARKER) : df.rows[i][2].text[o + j] = MARKER[j]}

\* C1: the data region starts right after the first row whose second cell
\* is text containing "ITEM DESCRIPTION" (start_row is that row's 0-based
\* index plus one, i.e. its 1-based index), and at 0 when there is no such
\* row; every item comes from a row below the first marker row.
C1_DataRegionAfterFirstMarker ==
  Loaded =>
    /\ LET markers == MarkerRows
       IN start_row = IF markers = {} THEN 0 ELSE Min(markers)
    /\ start_row + idx <= Len(df.rows)
    /\ Len(items) <= idx
    /\ \A k \in 1..Len(items) :
         \E j \in Consumed : items[k].description = NameText(df.rows[j])

C1_Witness ==
  /\ pc = "exit"
  /\ exit_code = 0
  /\ Len(df.rows) = 3
  /\ MarkerRows = {2}
  /\ ProcessRow(df.rows[1]) = "item"
  /\ Len(items) = 1
  /\ items[1].description = NameText(df.rows[3])

\* ---------------------------------------------------------------- C2
\* an integer or floating-point number that is present
NumericCell(x) == x.kind \in {"int", "float"}

RowLoopStep == pc = "rows" /\ idx < Len(data_df)

\* C2: a row whose first cell is missing or not a number (integer or
\* floating-point) adds no item and logs nothing; a row whose trimmed name
\* is empty adds no item.
C2_NonNumericIdSkipped ==
  [][RowLoopStep =>
       LET row == data_df[idx + 1]
       IN /\ ~NumericCell(row[1]) => items' = items /\ stdout' = stdout
          /\ Strip(NameText(row)) = <<>> => items' = items]_vars

\* ---------------------------------------------------------------- C3
AllDigitLike(s) == s # <<>> /\ \A i \in 1..Len(s) : IsDigitChar(s[i])

AllDecimal(s) == s # <<>> /\ \A i \in 1..Len(s) : s[i] \in Range(DecimalDigits)

\* the rows whose processing raises: the row has an id and a name, and a
\* quantity text that passes the digit test and cannot be cast
RowRaises(row) ==
  /\ row[1].kind \in {"int", "float", "bool"}
  /\ Strip(NameText(row)) # <<>>
  /\ Len(row) > 2
  /\ row[3].kind = "str"
  /\ AllDigitLike(row[3].text)
  /\ ~AllDecimal(row[3].text)

\* C3: a row that raises adds no item, leaves the earlier items as they
\* are, is logged with its absolute position (index in the data region plus
\* start_row), and the loop goes on to the next row: the load does not
\* fail, and it ends only when every row of the data region was processed.
C3_RowErrorIsRecovered ==
  [][/\ (RowLoopStep /\ RowRaises(data_df[idx + 1])) =>
          /\ items' = items
          /\ stdout' = Append(stdout, Msg("Error processing row", idx + start_row))
          /\ idx' = idx + 1
          /\ pc' = "rows"
          /\ exit_code' = exit_code
     /\ (pc = "rows" /\ pc' # "rows") => idx = Len(data_df)]_vars

C3_Witness ==
  /\ pc = "exit"
  /\ exit_code = 0
  /\ Len(data_df) = 3
  /\ RowRaises(data_df[2])
  /\ Len(items) = 2
  /\ Printed("Error processing row")
  /\ \E i \in 1..Len(stdout) : stdout[i] = Msg("Error processing row", start_row + 1)

\* ---------------------------------------------------------------- C4
OtherFields == {"id", "name", "brand", "color", "code", "quantity", "price", "description"}

OverrideGiven == args.branch # DEFAULT_BRANCH \/ args.branch_id # DEFAULT_BRANCH_ID

\* C4: the override step gives every item the supplied branch and
\* branch_id, changes no other field, keeps the number and order of items,
\* and modifies nothing when both arguments equal the defaults.
C4_OverrideFrame ==
  [][(pc = "rows" /\ pc' = "export") =>
       /\ Len(items') = Len(items)
       /\ \A i \in 1..Len(items) :
            /\ \A f \in OtherFields : items'[i][f] = items[i][f]
            /\ OverrideGiven =>
                 items'[i].branch = args.branch /\ items'[i].branch_id = args.branch_id
       /\ ~OverrideGiven => items' = items]_vars

C4_Witness ==
  /\ pc = "export"
  /\ args.branch = BranchIkeja
  /\ args.branch_id = DEFAULT_BRANCH_ID
  /\ Len(items) >= 2
  /\ \A i \in 1..Len(items) :
       items[i].branch = BranchIkeja /\ items[i].branch_id = DEFAULT_BRANCH_ID

\* ---------------------------------------------------------------- C5
ListRun == ~args.no_args /\ args.list_sheets /\ IsFile(args.excel_path)

\* C5: with --list-sheets and an existing file the driver calls
\* list_sheets and exits 0, never constructs the formatter and never
\* exports, also when list_sheets fails to open the file.
C5_ListSheetsShortCircuits ==
  ListRun =>
    /\ ~Called("FormatDocument")
    /\ ~Called("export_to_csv")
    /\ csv = NoFile
    /\ df = NoSheet
    /\ items = <<>>
    /\ pc = "exit" => exit_code = 0 /\ calls = <<"list_sheets">>

C5_Witness ==
  /\ ListRun
  /\ pc = "exit"
  /\ exit_code = 0
  /\ Printed("Error reading sheets")
  /\ calls = <<"list_sheets">>

\* ---------------------------------------------------------------- C6
PathRequiredExit ==
  /\ exit_code = 1
  /\ Printed("Error: Excel file path is required")

\* C6 as stated: a run with --list-sheets and no excel_path does not end
\* with the path-required error, and a run with no arguments prints usage
\* and exits 0.
C6_Original ==
  pc = "exit" =>
    /\ (~args.no_args /\ args.excel_path = "" /\ args.list_sheets) => ~PathRequiredExit
    /\ args.no_args => exit_code = 0 /\ stdout = <<Msg("usage", 0)>>

\* C6 amended: an absent excel_path is an error (exit code 1, "Excel file
\* path is required") whenever at least one argument is given, --list-sheets
\* included, and only then; a run with no arguments prints usage and exits 0.
C6_PathRequiredAlsoWhenListing ==
  pc = "exit" =>
    /\ (~args.no_args /\ args.excel_path = "") => PathRequiredExit /\ calls = <<>>
    /\ Printed("Error: Excel file path is required") =>
         ~args.no_args /\ args.excel_path = ""
    /\ args.no_args => exit_code = 0 /\ stdout = <<Msg("usage", 0)>>

C6_Witness ==
  /\ pc = "exit"
  /\ ~args.no_args
  /\ args.excel_path = ""
  /\ args.list_sheets
  /\ PathRequiredExit

\* ---------------------------------------------------------------- C7
ExportCompleted ==
  /\ calls = <<"FormatDocument", "export_to_csv">>
  /\ csv = [exists |-> TRUE, path |-> args.output, rows |-> CsvRows(items)]

\* C7: a failure to read the sheet (read_excel raising, or a sheet without
\* a second column) ends the run with exit code 1 and without any export;
\* every exception during load or export ends the run with exit code 1; exit
\* code 0 comes only after a completed export, a listing, or the usage print.
C7_FileFailureIsFatal ==
  /\ pc = "rows" => Loaded
  /\ pc = "exit" =>
       /\ Printed("Error reading Excel file") =>
            exit_code = 1 /\ ~Called("export_to_csv") /\ csv = NoFile /\ items = <<>>
       /\ (Called("FormatDocument") /\ ~Loaded) => Printed("Error reading Excel file")
       /\ Printed("Error processing file") => exit_code = 1
       /\ exit_code = 0 =>
            \/ ExportCompleted
            \/ calls = <<"list_sheets">>
            \/ args.no_args /\ stdout = <<Msg("usage", 0)>>
       /\ (Called("export_to_csv") /\ ~ExportCompleted) => exit_code = 1

C7_Witness ==
  /\ pc = "exit"
  /\ exit_code = 1
  /\ df.ncols = 1
  /\ Len(df.rows) >= 1
  /\ Printed("Error reading Excel file")
  /\ csv = NoFile

\* ---------------------------------------------------------------- C8
RECURSIVE DropLeadingZeros(_)
DropLeadingZeros(s) ==
  IF Len(s) > 1 /\ Head(s) = "0" THEN DropLeadingZeros(Tail(s)) ELSE s

\* the quantity the claim gives a row: the decimal text of the third cell's
\* integer value when the cell exists, is present and its text is all
\* decimal digits, and "1" otherwise
ClaimedQuantity(row) ==
  IF Len(row) >= 3 /\ row[3].kind # "nan" /\ AllDecimal(Str(row[3]))
  THEN DropLeadingZeros(Str(row[3]))
  ELSE <<"1">>

\* C8: every item the loader appends has the quantity the claim gives its
\* row.
C8_QuantityOfAppendedItem ==
  [][(RowLoopStep /\ Len(items') = Len(items) + 1) =>
       items'[Len(items')].quantity = ClaimedQuantity(data_df[idx + 1])]_vars

C8_Witness ==
  /\ pc = "exit"
  /\ Len(items) = 3
  /\ items[1].id = <<"1">>
  /\ items[1].description = NamePyrex
  /\ items[1].quantity = <<"5">>
  /\ items[2].description = NamePrimaLinsan
  /\ items[2].quantity = <<"1">>
  /\ items[3].quantity = <<"1", "2">>

\* ---------------------------------------------------------------- C9
\* what identifies the item a row would yield: its id text and its name
RowKey(row) ==
  [id |-> IF row[1].kind \in {"int", "float", "bool"}
          THEN IntToStr(ToInt(row[1]).val) ELSE <<>>,
   description |-> NameText(row)]

ItemKey(item) == [id |-> item.id, description |-> item.description]

\* a is b with some elements left out, order kept
RECURSIVE IsSubSeq(_, _)
IsSubSeq(a, b) ==
  IF a = <<>> THEN TRUE
  ELSE IF b = <<>> THEN FALSE
  ELSE IF Head(a) = Head(b) THEN IsSubSeq(Tail(a), Tail(b))
  ELSE IsSubSeq(a, Tail(b))

\* C9: a completed export wrote, at the output path, one header row in
\* the fixed column order and then one row per item in list order; the
\* item list is a subsequence, in order, of the data-region rows; export
\* leaves the item list as it is and returns the output path.
C9_ExportWritesItemsInOrder ==
  /\ [](Loaded =>
          /\ Len(items) <= Len(data_df)
          /\ IsSubSeq([k \in 1..Len(items) |-> ItemKey(items[k])],
                      [j \in 1..Len(data_df) |-> RowKey(data_df[j])]))
  /\ []((pc = "exit" /\ exit_code = 0 /\ Called("export_to_csv")) =>
          /\ csv.exists
          /\ csv.path = args.output
          /\ Len(csv.rows) = Len(items) + 1
          /\ csv.rows[1] = <<"id", "name", "brand", "color", "code", "quantity",
                             "price", "branch", "branch_id", "description">>
          /\ \A k \in 1..Len(items) :
               csv.rows[k + 1] =
                 <<items[k].id, items[k].name, items[k].brand, items[k].color,
                   items[k].code, items[k].quantity, items[k].price,
                   items[k].branch, items[k].branch_id, items[k].description>>
          /\ \E i \in 1..Len(stdout) :
               /\ stdout[i].msg = "Success! Formatted document saved to"
               /\ stdout[i].path = args.output)
  /\ [][pc = "export" => items' = items]_vars

C9_Witness ==
  /\ pc = "exit"
  /\ exit_code = 0
  /\ args.output = "my_inventory.csv"
  /\ csv.exists
  /\ Len(items) = 2
  /\ Len(data_df) = 3
  /\ items[1].id # items[2].id

\* ---------------------------------------------------------------- C10
\* keyword k occurs in the name, letter case aside
OccursIgnoringCase(name, k) ==
  \E o \in 0..(Len(name) - Len(brand_keywords[k])) :
    \A j \in 1..Len(brand_keywords[k]) :
      UpperChar(name[o + j]) = brand_keywords[k][j]

MatchingKeywords(name) ==
  {k \in 1..Len(brand_keywords) : OccursIgnoringCase(name, k)}

\* C10: the brand of every item the loader appends is the title-cased
\* first keyword, in list order, that occurs in its name whatever the
\* letter case; with no such keyword it is the title-cased first word of
\* the name, and the name of an appended item always has a first word, so
\* the "Unknown" fallback is never taken.
C10_BrandOfItem ==
  [][(RowLoopStep /\ Len(items') = Len(items) + 1) =>
       LET item == items'[Len(items')]
           name == NameText(data_df[idx + 1])
           found == MatchingKeywords(name)
       IN /\ item.description = name
          /\ Split(name) # <<>>
          /\ found # {} => item.brand = Title(brand_keywords[Min(found)])
          /\ found = {} => item.brand = Title(Split(name)[1])]_vars

C10_Witness ==
  \E i \in 1..Len(items) :
    /\ items[i].description = NamePrimaLinsan
    /\ items[i].brand = <<"L", "i", "n", "s", "a", "n">>
    /\ \E j \in 1..Len(items) :
         /\ items[j].description = NameMystery
         /\ items[j].brand = <<"M", "y", "s", "t", "e", "r", "y">>
====
